---- MODULE Spec2Model ----
(***************************************************************************)
(* State-machine model of the publishing loop of maquinanerd/SNBR:         *)
(*   app/queue_store.py  - the in-memory work queue                        *)
(*   app/main.py         - run_247, the driving loop                       *)
(*   app/worker.py       - process_one_article, the per-job retry loop     *)
(*   app/ai_processor.py - AIProcessor, credential/model failover and the  *)
(*                         validation of a response (_parse_response)      *)
(*   app/internal_linking.py - add_internal_links                          *)
(* The program is sequential: one program counter (pc) walks through the   *)
(* driving loop, the job in progress and the rewrite call in progress.     *)
(* Collaborators that are not part of the sources (store, feeds, the text  *)
(* generation service, the publishing backend) are modelled by the         *)
(* outcomes their callers distinguish, chosen nondeterministically.        *)
(***************************************************************************)
EXTENDS Integers, Sequences, FiniteSets, TLC

\* ---------------------------------------------------------------- bounds
MaxJobs    == 2      \* distinct job identifiers handed out by the store
MaxEnqueue == 2      \* total number of entries the feeds ever enqueue
MaxBatch   == 1      \* largest batch one feed fetch enqueues
QMaxEnqueue == 4     \* queue on its own: total number of entries enqueued
QMaxBatch  == 2      \* queue on its own: largest push_many batch
NumKeys    == 3      \* len(AI_API_KEYS), the size of the credential pool
MaxEntries == 5      \* link catalog: entries; the body text has as many words
MaxRegions == 3      \* link insertion: text regions of a body
MaxLinksArg == 2     \* link insertion: largest max_links passed
MaxDims    == 2      \* upload filter: size parameters in one URL
MaxPosts   == 3      \* priority list: entries of a catalog

\* ------------------------------------------------------ program constants
MAX_JSON_RETRY  == 1     \* app.config.MAX_JSON_RETRY ("retryable once")
FailoverAfter   == 3     \* worker.py: if backoff_attempt >= 3
BACKOFF_BASE    == 2     \* app.config.BACKOFF_BASE: the first wait
BACKOFF_MAX     == 6     \* app.config.BACKOFF_MAX: the cap, met at attempt 3

JobIds   == 1..MaxJobs
NoJob    == 0            \* Python None for "no article"
Terminal == {"PUBLISHED", "FAILED"}
Statuses == {"PENDING", "PROCESSING"} \cup Terminal

\* models_to_try = [AI_MODELS['primary'], AI_MODELS['fallback']]
models_to_try == <<"primary", "fallback">>

\* What one generate_content + _parse_response attempt can end in, as the
\* handlers of rewrite_content tell them apart.
GenOutcomes == {"ok", "erro", "quota", "perm", "invalid", "other"}

\* Outcomes of a call into the store / the feeds / the pipeline.
CallOutcomes == {"ok", "raise"}

\* Positions of the thread of control: in run_247 itself, and inside
\* process_one_article (WorkerPcs), of which RewritePcs are inside the
\* rewrite call.
MainPcs   == {"top", "pop", "idle", "sleep"}
WorkerPcs == {"mark", "rewrite", "rw_try", "pipeline", "links", "publish",
              "save", "h_quota", "h_json", "h_exc"}
LoopPcs   == MainPcs \cup WorkerPcs

VARIABLES
  queue,             \* queue_store._queue
  pushed,            \* history: every entry ever given to push_many, in order
  popped,            \* history: every entry ever returned by pop, in order
  pc,                \* position of the single thread of control
  article,           \* main.py 'article' / worker.py 'article_db_id'
  success,           \* value returned by process_one_article ("none" before)
  json_retry_used,   \* worker.py local
  backoff_attempt,   \* worker.py local
  status,            \* store: persisted status per job identifier
  reason,            \* store: persisted failure reason per job identifier
  wp_post,           \* store: persisted post identifier per job identifier
  persisted,         \* history: terminal statuses written during this call
  wp_post_id,        \* worker.py local: True once create_post returned an id
  force_json,        \* argument force_json of the rewrite call in progress
  json_failures,     \* history: JsonFormatError raised for this job (0..3)
  quota_after_retry, \* history: a quota backoff happened after the strict retry
  quota_run,         \* history: Quota429Error handled in a row on one credential
  last_wait,         \* history: 'wait' of the job's last _exp_backoff_sleep
  visited,           \* history: credentials of the current run of quota failures
  current_key_index, \* AIProcessor.current_key_index
  key_index,         \* rewrite_content local
  model_i,           \* rewrite_content: position in models_to_try
  last_error,        \* rewrite_content local, by kind
  last_refresh,      \* main.py local: 0 is the initial 0.0, 1 a clock reading
  refresh_due,       \* now - last_refresh >= refresh_interval
  db_closed,         \* number of db.close() calls made by run_247
  exit_cause,        \* why run_247 left its loop
  rewritten_data,    \* worker.py local: <<>> or the attempt whose response it is
  content_html,      \* worker.py local: "none", "rewritten", "linked"
  link_map,          \* worker.py 145-146: how loading the link catalog ended
  arg,               \* a function studied on its own: its arguments
  ret                \* a function studied on its own: its result

vars == <<queue, pushed, popped, pc, article, success, json_retry_used,
          backoff_attempt, status, reason, wp_post, persisted, wp_post_id,
          force_json, json_failures, quota_after_retry, quota_run,
          last_wait, visited,
          current_key_index, key_index, model_i, last_error,
          last_refresh, refresh_due, db_closed, exit_cause,
          rewritten_data, content_html, link_map, arg, ret>>

queueVars  == <<queue, pushed, popped>>
storeVars  == <<status, reason, wp_post, persisted>>
workerVars == <<json_retry_used, backoff_attempt, wp_post_id, json_failures,
               quota_after_retry>>
aiVars     == <<current_key_index, key_index, model_i, last_error, force_json,
               visited>>
loopVars   == <<last_refresh, refresh_due>>
exitVars   == <<db_closed, exit_cause>>
dataVars   == <<rewritten_data, content_html, link_map>>
histVars   == <<quota_run, last_wait>>
fnVars     == <<arg, ret>>

\* ------------------------------------------------------------ queue_store
\* push_many: _queue.extend(articles)
push_many(q, articles) == q \o articles

\* Mutant: pop() instead of popleft(): takes the newest entry.
pop_Right(q) ==
  IF Len(q) = 0 THEN <<NoJob, q>>
  ELSE <<q[Len(q)], SubSeq(q, 1, Len(q) - 1)>>

\* pop: _queue.popleft(), None on IndexError. Result is <<entry, queue'>>.
pop(q) == IF Len(q) = 0 THEN <<NoJob, q>> ELSE <<Head(q), Tail(q)>>

\* is_empty: not _queue
is_empty(q) == Len(q) = 0

\* Batches a feed fetch may enqueue (fetch_all_feeds -> push_many).
Batches == UNION {[1..n -> JobIds] : n \in 0..MaxBatch}

\* ------------------------------------------------------------ AIProcessor
\* Mutant: the reset to 0 after the last credential is missing.
_failover_to_next_key_NoWrap(i) == i + 1

\* Mutant: the test is '<=' instead of '<', the reset comes one call late.
_failover_to_next_key_LateWrap(i) == IF i + 1 <= NumKeys THEN i + 1 ELSE 0

\* _failover_to_next_key: the index after the call.
_failover_to_next_key(i) == IF i + 1 < NumKeys THEN i + 1 ELSE 0

\* Mutant: the assignment self.current_key_index = key_index is missing.
_configure_model_with_key_Stale(key) == current_key_index

\* _configure_model_with_key(model_name, key_index): the index it leaves in
\* current_key_index (key_index < len(api_keys) in every call made by
\* rewrite_content, so AllKeysFailedError is never raised there).
_configure_model_with_key(key) == key

\* Mutant: a quota or permission signal leaves the model loop too.
NextPair_SkipFallback(key, m, o) == <<key + 1, 1>>

\* Mutant: when the models of a credential are exhausted the while loop is
\* left instead of going on with the next credential.
NextPair_GiveUp(key, m, o) ==
  IF o \in {"quota", "perm"} /\ m < Len(models_to_try)
    THEN <<key, m + 1>>
    ELSE <<NumKeys, 1>>

\* Mutant: the unexpected-error handler says 'continue' instead of 'break'.
NextPair_Continue(key, m, o) ==
  IF m < Len(models_to_try) THEN <<key, m + 1>> ELSE <<key + 1, 1>>

\* The (key_index, model) pair rewrite_content turns to after a failed
\* attempt on (key, m): 'continue' goes to the next model of the same key
\* and, after the last model, to the next key; 'break' leaves the model loop
\* and goes to the next key at once.
NextPair(key, m, o) ==
  IF o \in {"quota", "perm"} /\ m < Len(models_to_try)
    THEN <<key, m + 1>>          \* except (NotFound, PermissionDenied, ResourceExhausted): continue
    ELSE <<key + 1, 1>>          \* except Exception: break  /  models exhausted; key_index += 1

\* send_to_ai_and_validate is called by worker.py but is not part of the
\* sources: it wraps rewrite_content and turns its failure into the exception
\* classes worker.py catches.  Result: the handler (or step) the worker
\* reaches.  A quota or permission signal is QuotaExceeded, an unparsable
\* response FormatInvalid, anything else (a soft decline included, for which
\* worker.py has no branch) a plain error.
send_to_ai_and_validate(result, err) ==
  CASE result = "data"                         -> "pipeline"
    [] result = "erro"                         -> "h_exc"
    [] result = "failed" /\ err \in {"quota", "perm"} -> "h_quota"
    [] result = "failed" /\ err = "invalid"    -> "h_json"
    [] OTHER                                   -> "h_exc"

\* ------------------------------------------------------------------ store
\* db.update_article_status(id, st, reason) and db.save_processed_post(id,
\* post): the store is not part of the sources; it keeps one status per job
\* identifier and overwrites it.
update_article_status(st, id, new) == [st EXCEPT ![id] = new]

\* --------------------------------------------------------------- run_247
InitLoop ==
  /\ queue = <<>> /\ pushed = <<>> /\ popped = <<>>
  /\ pc = "top"
  /\ article = NoJob
  /\ success = "none"
  /\ json_retry_used = FALSE
  /\ backoff_attempt = 0
  /\ wp_post_id = FALSE
  /\ json_failures = 0
  /\ quota_after_retry = FALSE
  /\ quota_run = 0
  /\ last_wait = 0
  /\ status = [j \in JobIds |-> "PENDING"]
  /\ reason = [j \in JobIds |-> "none"]
  /\ wp_post = [j \in JobIds |-> FALSE]
  /\ persisted = <<>>
  /\ current_key_index = 0
  /\ key_index = 0
  /\ model_i = 1
  /\ last_error = "Unknown"
  /\ force_json = FALSE
  /\ visited = <<>>
  /\ last_refresh = 0
  /\ refresh_due \in BOOLEAN
  /\ db_closed = 0
  /\ exit_cause = "none"
  /\ rewritten_data = <<>>
  /\ content_html = "none"
  /\ link_map = "none"

\* run_247 calls none of the functions studied on their own.
Init ==
  /\ InitLoop
  /\ arg = <<>>
  /\ ret = <<>>

\* fetch_all_feeds(): enqueues a batch (possibly empty) or raises; the
\* callers in run_247 catch and log the exception.
FetchFeeds(batch, r) ==
  /\ Len(pushed) + Len(batch) <= MaxEnqueue
  /\ IF r = "ok"
       THEN /\ queue' = push_many(queue, batch)
            /\ pushed' = pushed \o batch
       ELSE /\ batch = <<>>
            /\ UNCHANGED <<queue, pushed>>
  /\ UNCHANGED popped

\* main.py 57-71: the feed refresh at the top of an iteration.
LoopRefresh(batch, r) ==
  /\ pc = "top"
  /\ ~is_empty(queue) /\ refresh_due
  /\ FetchFeeds(batch, r)
  /\ last_refresh' = 1
  /\ refresh_due' = FALSE
  /\ pc' = "pop"
  /\ UNCHANGED <<article, success, workerVars, storeVars, aiVars, exitVars>>
  /\ UNCHANGED <<dataVars, histVars, fnVars>>

\* main.py 60: the refresh condition is false.
LoopNoRefresh ==
  /\ pc = "top"
  /\ ~(~is_empty(queue) /\ refresh_due)
  /\ pc' = "pop"
  /\ UNCHANGED <<queueVars, article, success, workerVars, storeVars, aiVars,
                 loopVars, exitVars>>
  /\ UNCHANGED <<dataVars, histVars, fnVars>>

\* main.py 74-79 and worker.py 62-69: pop one article; a non-empty result
\* enters process_one_article with fresh locals.
LoopPop ==
  /\ pc = "pop"
  /\ article' = pop(queue)[1]
  /\ queue' = pop(queue)[2]
  /\ popped' = IF pop(queue)[1] = NoJob THEN popped
               ELSE Append(popped, pop(queue)[1])
  /\ IF pop(queue)[1] # NoJob
       THEN /\ pc' = "mark"
            /\ json_retry_used' = FALSE
            /\ backoff_attempt' = 0
            /\ wp_post_id' = FALSE
            /\ json_failures' = 0
            /\ quota_after_retry' = FALSE
            /\ quota_run' = 0
            /\ last_wait' = 0
            /\ persisted' = <<>>
            /\ success' = "none"
            /\ visited' = <<>>
            /\ rewritten_data' = <<>>
            /\ content_html' = "none"
            /\ link_map' = "none"
       ELSE /\ pc' = "idle"
            /\ UNCHANGED <<workerVars, persisted, success, visited, dataVars,
                           histVars>>
  /\ UNCHANGED <<pushed, status, reason, wp_post, current_key_index,
                 key_index, model_i, last_error, force_json, loopVars,
                 exitVars>>
  /\ UNCHANGED fnVars

\* main.py 90-101: the queue was empty; the first time, fetch the feeds.
LoopIdle(batch, r, due) ==
  /\ pc = "idle"
  /\ IF last_refresh = 0
       THEN /\ FetchFeeds(batch, r)
            /\ last_refresh' = 1
            /\ refresh_due' = due
       ELSE /\ batch = <<>> /\ r = "ok"
            /\ UNCHANGED <<queueVars, last_refresh>>
            /\ refresh_due' = (refresh_due \/ due)
  /\ pc' = "top"
  /\ UNCHANGED <<article, success, workerVars, storeVars, aiVars, exitVars>>
  /\ UNCHANGED <<dataVars, histVars, fnVars>>

\* Mutant: a job that failed is put back at the end of the queue.
LoopSleep_Requeue(due) ==
  /\ pc = "sleep"
  /\ pc' = "top"
  /\ refresh_due' = (refresh_due \/ due)
  /\ queue' = IF success = "False" THEN Append(queue, article) ELSE queue
  /\ UNCHANGED <<pushed, popped, article, success, workerVars, storeVars,
                 aiVars, last_refresh, exitVars>>
  /\ UNCHANGED <<dataVars, histVars, fnVars>>

\* main.py 81-89: process_one_article returned; sleep, next iteration.
LoopSleep(due) ==
  /\ pc = "sleep"
  /\ pc' = "top"
  /\ refresh_due' = (refresh_due \/ due)
  /\ UNCHANGED <<queueVars, article, success, workerVars, storeVars, aiVars,
                 last_refresh, exitVars>>
  /\ UNCHANGED <<dataVars, histVars, fnVars>>

\* Mutant: the finally clause is missing: the store is left open.
Escape_NoClose ==
  /\ pc' = "terminated"
  /\ exit_cause' = "error"
  /\ db_closed' = db_closed

\* main.py 105-109: an exception left the loop body: log, db.close().
Escape ==
  /\ pc' = "terminated"
  /\ exit_cause' = "error"
  /\ db_closed' = db_closed + 1

\* Mutant: the handler of the interrupt records the job in progress as
\* FAILED before the loop ends.
Interrupt_MarksFailed ==
  /\ pc \in LoopPcs
  /\ pc' = "terminated"
  /\ exit_cause' = "interrupt"
  /\ db_closed' = db_closed + 1
  /\ status' = IF pc \in WorkerPcs
                 THEN update_article_status(status, article, "FAILED")
                 ELSE status
  /\ UNCHANGED <<queueVars, article, success, workerVars, reason, wp_post,
                 persisted, aiVars, loopVars, dataVars, histVars, fnVars>>

\* main.py 103-104, 107-109: KeyboardInterrupt, at any point of the loop.
Interrupt ==
  /\ pc \in LoopPcs
  /\ pc' = "terminated"
  /\ exit_cause' = "interrupt"
  /\ db_closed' = db_closed + 1
  /\ UNCHANGED <<queueVars, article, success, workerVars, storeVars, aiVars,
                 loopVars>>
  /\ UNCHANGED <<dataVars, histVars, fnVars>>

\* Mutant: the wait is not capped by BACKOFF_MAX.
_exp_backoff_sleep_NoCap(attempt) == BACKOFF_BASE * (2 ^ (attempt - 1))

\* worker.py 55-56, _exp_backoff_sleep(attempt): the 'wait' it computes,
\* before the jitter random.randint(0, 5) is added and the thread sleeps.
_exp_backoff_sleep(attempt) ==
  LET wait == BACKOFF_BASE * (2 ^ (attempt - 1))
  IN  IF wait <= BACKOFF_MAX THEN wait ELSE BACKOFF_MAX

\* ---------------------------------------------------- process_one_article
\* worker.py 71-72: read the store identifier, persist PROCESSING.  Both
\* lines are outside the try block: an exception leaves the function.
MarkProcessing(r) ==
  /\ pc = "mark"
  /\ IF r = "ok"
       THEN /\ status' = update_article_status(status, article, "PROCESSING")
            /\ pc' = "rewrite"
            /\ UNCHANGED exitVars
       ELSE /\ Escape
            /\ UNCHANGED status
  /\ UNCHANGED <<queueVars, article, success, workerVars, reason, wp_post,
                 persisted, aiVars, loopVars>>
  /\ UNCHANGED <<dataVars, histVars, fnVars>>

\* worker.py 78-81 / ai_processor.py 186-189: a rewrite call starts at the
\* current credential; with no credential left the while loop is skipped.
RewriteBegin ==
  /\ pc = "rewrite"
  /\ force_json' = json_retry_used
  /\ last_error' = "Unknown"
  /\ key_index' = current_key_index
  /\ model_i' = 1
  /\ pc' = IF current_key_index < NumKeys THEN "rw_try"
           ELSE send_to_ai_and_validate("failed", "Unknown")
  /\ UNCHANGED <<queueVars, article, success, workerVars, storeVars,
                 current_key_index, visited, loopVars, exitVars>>
  /\ UNCHANGED <<dataVars, histVars, fnVars>>

\* History: the credential of a quota failure joins the current run of
\* quota failures (the last NumKeys distinct visits are kept).
Visit(v, k) ==
  IF v # <<>> /\ v[Len(v)] = k THEN v
  ELSE IF Len(v) < NumKeys THEN Append(v, k)
  ELSE Append(Tail(v), k)

\* Mutant: the rejection is returned after the credential was advanced, as
\* on the success path.
RewriteAttempt_DeclineAdvances(o) ==
  /\ pc = "rw_try"
  /\ visited' = IF o = "quota" THEN Visit(visited, key_index) ELSE <<>>
  /\ IF o = "ok"
       THEN \* 207-210: success, advance the credential and return
            /\ current_key_index' =
                 _failover_to_next_key(_configure_model_with_key(key_index))
            /\ pc' = send_to_ai_and_validate("data", last_error)
            /\ UNCHANGED <<key_index, model_i, last_error>>
       ELSE IF o = "erro"
       THEN \* 203-205: the response carries the rejection field
            /\ current_key_index' =
                 _failover_to_next_key(_configure_model_with_key(key_index))
            /\ pc' = send_to_ai_and_validate("erro", last_error)
            /\ UNCHANGED <<key_index, model_i, last_error>>
       ELSE \* 212-223: failure, next model or next credential
            /\ current_key_index' = _configure_model_with_key(key_index)
            /\ last_error' = o
            /\ key_index' = NextPair(key_index, model_i, o)[1]
            /\ model_i' = NextPair(key_index, model_i, o)[2]
            /\ IF NextPair(key_index, model_i, o)[1] < NumKeys
                 THEN pc' = "rw_try"
                 ELSE \* 225-227: every remaining credential failed
                      pc' = send_to_ai_and_validate("failed", o)
  /\ UNCHANGED <<queueVars, article, success, workerVars, storeVars,
                 force_json, loopVars, exitVars>>
  /\ rewritten_data' = IF o = "ok" THEN <<key_index, model_i>>
                       ELSE rewritten_data
  /\ UNCHANGED <<content_html, link_map, histVars, fnVars>>

\* ai_processor.py 192-227: one (credential, model) attempt and what
\* rewrite_content does with its outcome o.
RewriteAttempt(o) ==
  /\ pc = "rw_try"
  /\ visited' = IF o = "quota" THEN Visit(visited, key_index) ELSE <<>>
  /\ IF o = "ok"
       THEN \* 207-210: success, advance the credential and return
            /\ current_key_index' =
                 _failover_to_next_key(_configure_model_with_key(key_index))
            /\ pc' = send_to_ai_and_validate("data", last_error)
            /\ UNCHANGED <<key_index, model_i, last_error>>
       ELSE IF o = "erro"
       THEN \* 203-205: the response carries the rejection field
            /\ current_key_index' = _configure_model_with_key(key_index)
            /\ pc' = send_to_ai_and_validate("erro", last_error)
            /\ UNCHANGED <<key_index, model_i, last_error>>
       ELSE \* 212-223: failure, next model or next credential
            /\ current_key_index' = _configure_model_with_key(key_index)
            /\ last_error' = o
            /\ key_index' = NextPair(key_index, model_i, o)[1]
            /\ model_i' = NextPair(key_index, model_i, o)[2]
            /\ IF NextPair(key_index, model_i, o)[1] < NumKeys
                 THEN pc' = "rw_try"
                 ELSE \* 225-227: every remaining credential failed
                      pc' = send_to_ai_and_validate("failed", o)
  /\ UNCHANGED <<queueVars, article, success, workerVars, storeVars,
                 force_json, loopVars, exitVars>>
  /\ rewritten_data' = IF o = "ok" THEN <<key_index, model_i>>
                       ELSE rewritten_data
  /\ UNCHANGED <<content_html, link_map, histVars, fnVars>>

\* process_one_article returns: the locals that hold the rewritten fields,
\* the body and the link catalog end with the call, and so does the record
\* of its backoffs.
Return ==
  /\ rewritten_data' = <<>>
  /\ content_html' = "none"
  /\ link_map' = "none"
  /\ quota_run' = 0
  /\ last_wait' = 0

\* worker.py 84-141: fetch, extract, transform, upload, categories.  Any
\* exception raised there reaches 'except Exception'.
Pipeline(r) ==
  /\ pc = "pipeline"
  /\ pc' = IF r = "ok" THEN "links" ELSE "h_exc"
  /\ content_html' = IF r = "ok" THEN "rewritten" ELSE content_html
  /\ UNCHANGED <<queueVars, article, success, workerVars, storeVars,
                 aiVars, loopVars, exitVars, rewritten_data, link_map,
                 histVars, fnVars>>

\* How open() + json.load() of data/internal_links.json can end: the catalog
\* is loaded, the file is absent (FileNotFoundError), its text does not
\* parse (json.JSONDecodeError), or another exception is raised.
CatalogOutcomes == {"loaded", "absent", "malformed", "unreadable"}

\* What add_internal_links does with the body, as its caller sees it: the
\* body comes back as it was, comes back with anchors, or the call raises.
LinkOutcomes == {"same", "linked", "raise"}

\* Mutant: the except clause of the catalog load catches only
\* json.JSONDecodeError; an absent file reaches 'except Exception'.
Links_NoCatch(cat, out) ==
  /\ pc = "links"
  /\ link_map' = cat
  /\ IF cat = "malformed"
       THEN /\ out = "same"
            /\ pc' = "publish"
            /\ UNCHANGED content_html
       ELSE IF cat \in {"unreadable", "absent"}
       THEN /\ out = "raise"
            /\ pc' = "h_exc"
            /\ UNCHANGED content_html
       ELSE /\ pc' = IF out = "raise" THEN "h_exc" ELSE "publish"
            /\ content_html' = IF out = "linked" THEN "linked" ELSE content_html
  /\ UNCHANGED <<queueVars, article, success, workerVars, storeVars,
                 aiVars, loopVars, exitVars, rewritten_data, histVars,
                 fnVars>>

\* worker.py 143-149: load the link catalog and insert the internal links.
\* FileNotFoundError and json.JSONDecodeError are caught and logged; any
\* other exception, from the load or from add_internal_links, reaches
\* 'except Exception'.
Links(cat, out) ==
  /\ pc = "links"
  /\ link_map' = cat
  /\ IF cat \in {"absent", "malformed"}
       THEN /\ out = "same"
            /\ pc' = "publish"
            /\ UNCHANGED content_html
       ELSE IF cat = "unreadable"
       THEN /\ out = "raise"
            /\ pc' = "h_exc"
            /\ UNCHANGED content_html
       ELSE /\ pc' = IF out = "raise" THEN "h_exc" ELSE "publish"
            /\ content_html' = IF out = "linked" THEN "linked" ELSE content_html
  /\ UNCHANGED <<queueVars, article, success, workerVars, storeVars,
                 aiVars, loopVars, exitVars, rewritten_data, histVars,
                 fnVars>>

\* worker.py 151-179: featured media, payload, create_post; no post
\* identifier raises "WordPress publishing failed.".
Publish(r) ==
  /\ pc = "publish"
  /\ wp_post_id' = (r = "ok")
  /\ pc' = IF r = "ok" THEN "save" ELSE "h_exc"
  /\ UNCHANGED <<queueVars, article, success, json_retry_used,
                 backoff_attempt, json_failures, quota_after_retry,
                 storeVars, aiVars, loopVars, exitVars>>
  /\ UNCHANGED <<dataVars, histVars, fnVars>>

\* Mutant: the post identifier is recorded but the status stays as it was.
SavePost_NoStatus(r) ==
  /\ pc = "save"
  /\ IF r = "ok"
       THEN /\ wp_post' = [wp_post EXCEPT ![article] = TRUE]
            /\ persisted' = Append(persisted, "PUBLISHED")
            /\ success' = "True"
            /\ pc' = "sleep"
            /\ Return
            /\ UNCHANGED status
       ELSE /\ pc' = "h_exc"
            /\ UNCHANGED <<status, wp_post, persisted, success, dataVars,
                           histVars>>
  /\ UNCHANGED <<queueVars, article, workerVars, reason, aiVars, loopVars,
                 exitVars>>
  /\ UNCHANGED fnVars

\* worker.py 175-177: db.save_processed_post, return True.
SavePost(r) ==
  /\ pc = "save"
  /\ IF r = "ok"
       THEN /\ status' = update_article_status(status, article, "PUBLISHED")
            /\ wp_post' = [wp_post EXCEPT ![article] = TRUE]
            /\ persisted' = Append(persisted, "PUBLISHED")
            /\ success' = "True"
            /\ pc' = "sleep"
            /\ Return
       ELSE /\ pc' = "h_exc"
            /\ UNCHANGED <<status, wp_post, persisted, success, dataVars,
                           histVars>>
  /\ UNCHANGED <<queueVars, article, workerVars, reason, aiVars, loopVars,
                 exitVars>>
  /\ UNCHANGED fnVars

\* Mutant: the job is given up (FAILED) once the third backoff is reached.
HandleQuota_GiveUp ==
  /\ pc = "h_quota"
  /\ IF backoff_attempt + 1 >= FailoverAfter
       THEN /\ status' = update_article_status(status, article, "FAILED")
            /\ reason' = [reason EXCEPT ![article] = "quota"]
            /\ persisted' = Append(persisted, "FAILED")
            /\ success' = "False"
            /\ pc' = "sleep"
            /\ UNCHANGED <<backoff_attempt, wp_post>>
       ELSE /\ backoff_attempt' = backoff_attempt + 1
            /\ pc' = "rewrite"
            /\ UNCHANGED <<storeVars, success>>
  /\ quota_after_retry' = (quota_after_retry \/ json_retry_used)
  /\ quota_run' = IF backoff_attempt = 0 THEN 1 ELSE quota_run + 1
  /\ last_wait' = _exp_backoff_sleep(backoff_attempt + 1)
  /\ UNCHANGED dataVars
  /\ UNCHANGED <<queueVars, article, json_retry_used, wp_post_id,
                 json_failures, aiVars, loopVars, exitVars>>
  /\ UNCHANGED fnVars

\* Mutant: 'backoff_attempt = 0' after the failover is missing, the counter
\* stays at the failover threshold.
HandleQuota_NoReset ==
  /\ pc = "h_quota"
  /\ IF backoff_attempt + 1 >= FailoverAfter
       THEN /\ current_key_index' = _failover_to_next_key(current_key_index)
            /\ backoff_attempt' = FailoverAfter
       ELSE /\ backoff_attempt' = backoff_attempt + 1
            /\ UNCHANGED current_key_index
  /\ quota_after_retry' = (quota_after_retry \/ json_retry_used)
  /\ quota_run' = IF backoff_attempt = 0 THEN 1 ELSE quota_run + 1
  /\ last_wait' = _exp_backoff_sleep(backoff_attempt + 1)
  /\ UNCHANGED dataVars
  /\ pc' = "rewrite"
  /\ UNCHANGED <<queueVars, article, success, json_retry_used, wp_post_id,
                 json_failures, storeVars, key_index, model_i, last_error,
                 force_json, visited, loopVars, exitVars>>
  /\ UNCHANGED fnVars

\* worker.py 181-187: except Quota429Error.
HandleQuota ==
  /\ pc = "h_quota"
  /\ IF backoff_attempt + 1 >= FailoverAfter
       THEN /\ current_key_index' = _failover_to_next_key(current_key_index)
            /\ backoff_attempt' = 0
       ELSE /\ backoff_attempt' = backoff_attempt + 1
            /\ UNCHANGED current_key_index
  /\ quota_after_retry' = (quota_after_retry \/ json_retry_used)
  /\ quota_run' = IF backoff_attempt = 0 THEN 1 ELSE quota_run + 1
  /\ last_wait' = _exp_backoff_sleep(backoff_attempt + 1)
  /\ UNCHANGED dataVars
  /\ pc' = "rewrite"
  /\ UNCHANGED <<queueVars, article, success, json_retry_used, wp_post_id,
                 json_failures, storeVars, key_index, model_i, last_error,
                 force_json, visited, loopVars, exitVars>>
  /\ UNCHANGED fnVars

\* worker.py 195-196 and 200-201: persist FAILED with a reason and return
\* False.  The call is inside an except clause: if the store raises, the
\* exception leaves process_one_article.
PersistFailed(r, why) ==
  IF r = "ok"
    THEN /\ status' = update_article_status(status, article, "FAILED")
         /\ reason' = [reason EXCEPT ![article] = why]
         /\ persisted' = Append(persisted, "FAILED")
         /\ success' = "False"
         /\ pc' = "sleep"
         /\ Return
         /\ UNCHANGED exitVars
    ELSE /\ Escape
         /\ UNCHANGED <<status, reason, persisted, success, dataVars, histVars>>

\* Mutant: the handler does not look at json_retry_used and always retries.
HandleJson_AlwaysRetry(r) ==
  /\ pc = "h_json"
  /\ r = "ok"
  /\ json_failures' = IF json_failures < 3 THEN json_failures + 1 ELSE 3
  /\ json_retry_used' = TRUE
  /\ quota_run' = 0
  /\ pc' = "rewrite"
  /\ UNCHANGED <<queueVars, article, success, backoff_attempt, wp_post_id,
                 quota_after_retry, last_wait, storeVars, aiVars, loopVars,
                 exitVars>>
  /\ UNCHANGED <<dataVars, fnVars>>

\* worker.py 189-196: except JsonFormatError.
HandleJson(r) ==
  /\ pc = "h_json"
  /\ json_failures' = IF json_failures < 3 THEN json_failures + 1 ELSE 3
  /\ IF ~json_retry_used /\ MAX_JSON_RETRY > 0
       THEN /\ r = "ok"
            /\ json_retry_used' = TRUE
            /\ quota_run' = 0
            /\ pc' = "rewrite"
            /\ UNCHANGED <<storeVars, success, exitVars, dataVars, last_wait>>
       ELSE /\ PersistFailed(r, "Invalid JSON from AI")
            /\ UNCHANGED json_retry_used
  /\ UNCHANGED <<queueVars, article, backoff_attempt, wp_post_id,
                 quota_after_retry, wp_post, aiVars, loopVars>>
  /\ UNCHANGED fnVars

\* Mutant: the handler returns False without persisting FAILED.
HandleException_NoPersist(r) ==
  /\ pc = "h_exc"
  /\ r = "ok"
  /\ success' = "False"
  /\ pc' = "sleep"
  /\ UNCHANGED <<queueVars, article, workerVars, storeVars, aiVars, loopVars,
                 exitVars>>
  /\ UNCHANGED <<dataVars, histVars, fnVars>>

\* worker.py 198-201: except Exception.
HandleException(r) ==
  /\ pc = "h_exc"
  /\ PersistFailed(r, "str(e)")
  /\ UNCHANGED <<queueVars, article, workerVars, wp_post, aiVars, loopVars>>
  /\ UNCHANGED fnVars

\* ------------------------------------------------------------ behaviours
\* Every behaviour of the loop: collaborators may fail, the interrupt signal
\* may arrive at any point.
Next ==
  \/ \E b \in Batches, r \in CallOutcomes : LoopRefresh(b, r)
  \/ LoopNoRefresh
  \/ LoopPop
  \/ \E b \in Batches, r \in CallOutcomes, due \in BOOLEAN : LoopIdle(b, r, due)
  \/ \E due \in BOOLEAN : LoopSleep(due)
  \/ \E r \in CallOutcomes : MarkProcessing(r)
  \/ RewriteBegin
  \/ \E o \in GenOutcomes : RewriteAttempt(o)
  \/ \E r \in CallOutcomes : Pipeline(r)
  \/ \E cat \in CatalogOutcomes, out \in LinkOutcomes : Links(cat, out)
  \/ \E r \in CallOutcomes : Publish(r)
  \/ \E r \in CallOutcomes : SavePost(r)
  \/ HandleQuota
  \/ \E r \in CallOutcomes : HandleJson(r)
  \/ \E r \in CallOutcomes : HandleException(r)
  \/ Interrupt

Spec == Init /\ [][Next]_vars

\* Normal operation: no interrupt signal and a store that answers; the
\* rewrite service, the pipeline and the publishing backend still fail as
\* they please.  The loop is a sequential program that keeps running, hence
\* weak fairness of its step.
NextNormal ==
  \/ \E b \in Batches, r \in CallOutcomes : LoopRefresh(b, r)
  \/ LoopNoRefresh
  \/ LoopPop
  \/ \E b \in Batches, r \in CallOutcomes, due \in BOOLEAN : LoopIdle(b, r, due)
  \/ \E due \in BOOLEAN : LoopSleep(due)
  \/ MarkProcessing("ok")
  \/ RewriteBegin
  \/ \E o \in GenOutcomes : RewriteAttempt(o)
  \/ \E r \in CallOutcomes : Pipeline(r)
  \/ \E cat \in CatalogOutcomes, out \in LinkOutcomes : Links(cat, out)
  \/ \E r \in CallOutcomes : Publish(r)
  \/ SavePost("ok")
  \/ HandleQuota
  \/ HandleJson("ok")
  \/ HandleException("ok")

SpecFair == Init /\ [][NextNormal]_vars /\ WF_vars(NextNormal)

\* --------------------------------------------------- the queue on its own
\* push_many and pop called in any order by any caller; pc names the last
\* call made and article holds what the last pop returned.
QBatches == UNION {[1..n -> JobIds] : n \in 0..QMaxBatch}

QPush(batch) ==
  /\ Len(pushed) + Len(batch) <= QMaxEnqueue
  /\ queue' = push_many(queue, batch)
  /\ pushed' = pushed \o batch
  /\ pc' = "q_push"
  /\ UNCHANGED <<popped, article, success, workerVars, storeVars, aiVars,
                 loopVars, exitVars>>
  /\ UNCHANGED <<dataVars, histVars, fnVars>>

QPop ==
  /\ article' = pop(queue)[1]
  /\ queue' = pop(queue)[2]
  /\ popped' = IF pop(queue)[1] = NoJob THEN popped
               ELSE Append(popped, pop(queue)[1])
  /\ pc' = "q_pop"
  /\ UNCHANGED <<pushed, success, workerVars, storeVars, aiVars, loopVars,
                 exitVars>>
  /\ UNCHANGED <<dataVars, histVars, fnVars>>

NextQueue ==
  \/ \E b \in QBatches : QPush(b)
  \/ QPop

SpecQueue == Init /\ [][NextQueue]_vars

\* ----------------------------------------------------- add_internal_links
\* A body is a sequence of text regions (the text nodes of the parsed
\* document, in document order).  A region has its words (a whole-word,
\* case-insensitive match of a title is a run of equal words), 'excl' when
\* one of its ancestors is in EXCLUDED_TAGS, and 'ref' when its text is
\* written with a character reference that serialising does not write back
\* (&eacute;, &#233;, &nbsp;).  'has_body' tells whether the document has a
\* body element; html.parser does not add one to a fragment.
EXCLUDED_TAGS == {"a", "h1", "h2", "h3", "h4", "h5", "h6", "blockquote",
                  "code", "pre", "figure", "figcaption"}

\* Titles of the catalog: "Team X", "Team X Rivalry", then one-word titles.
Title(i) == IF i = 1 THEN <<1, 2>> ELSE IF i = 2 THEN <<1, 2, 3>> ELSE <<i>>

\* The plain text of every body considered: it mentions every title, and
\* the title before the last one a second time at its end.
BodyText ==
  [i \in 1..(MaxEntries + 1) |-> IF i <= MaxEntries THEN i ELSE MaxEntries - 1]

\* The ways of cutting BodyText into at most MaxRegions regions: the sets of
\* positions after which a new region starts.
Cuts == {c \in SUBSET (1..(Len(BodyText) - 1)) : Cardinality(c) < MaxRegions}

\* The k-th region's text for a set of cuts.
RECURSIVE CutTexts(_, _, _)
CutTexts(c, from, at) ==
  IF at > Len(BodyText) THEN <<>>
  ELSE IF at = Len(BodyText) \/ at \in c
    THEN <<SubSeq(BodyText, from, at)>> \o CutTexts(c, at + 1, at + 1)
    ELSE CutTexts(c, from, at + 1)

\* Bodies with a body element: every cut, every choice of excluded regions;
\* the first region may be written with a character reference.
BodiesWithBody ==
  {[has_body |-> TRUE,
    regions |-> [k \in 1..(Cardinality(c) + 1) |->
                   [excl |-> e[k], text |-> CutTexts(c, 1, 1)[k],
                    ref |-> (k = 1 /\ r)]]] :
     <<c, e, r>> \in {x \in Cuts \X [1..MaxRegions -> BOOLEAN] \X BOOLEAN :
                        \A k \in 1..MaxRegions :
                          k > Cardinality(x[1]) + 1 => ~x[2][k]}}

\* The empty string, and a fragment without a body element.
BodiesWithoutBody ==
  {[has_body |-> FALSE, regions |-> <<>>],
   [has_body |-> FALSE,
    regions |-> <<[excl |-> FALSE, text |-> BodyText, ref |-> FALSE]>>]}

Bodies == BodiesWithBody \cup BodiesWithoutBody

\* link_map_data['posts']: MaxEntries entries or none.  Entry i has link i,
\* but the second entry may carry the link of the first, or the last entry
\* the link of the one before it; the one-word entries have their
\* categories in common.
Catalogs ==
  {<<>>} \cup
  {[i \in 1..MaxEntries |->
      [title |-> Title(i),
       link |-> IF i = 2 THEN l[1] ELSE IF i = MaxEntries THEN l[2] ELSE i,
       categories |-> IF cs[IF i < 3 THEN i ELSE 3] THEN {1} ELSE {}]] :
     <<l, cs>> \in {<<2, MaxEntries>>, <<1, MaxEntries>>,
                    <<2, MaxEntries - 1>>} \X [1..3 -> BOOLEAN]}

\* app.config.PILAR_POSTS: any of the first two links, all or none of the
\* others.
PilarSets ==
  {a \cup b : <<a, b>> \in (SUBSET {1, 2}) \X {{}, 3..MaxEntries}}

LinkArgs ==
  [html_content : Bodies, posts : Catalogs, PILAR_POSTS : PilarSets,
   current_post_categories : {{1}}, max_links : 0..MaxLinksArg]

\* Mutant: the category test comes before the pillar test.
Tier_CategoryFirst(post_data, a) ==
  IF a.current_post_categories # {}
       /\ a.current_post_categories \cap post_data.categories # {}
    THEN "category"
  ELSE IF post_data.link \in a.PILAR_POSTS THEN "pilar"
  ELSE "other"

\* internal_linking.py 45-54: the tier of a catalog entry.
Tier(post_data, a) ==
  IF post_data.link \in a.PILAR_POSTS THEN "pilar"
  ELSE IF a.current_post_categories # {}
          /\ a.current_post_categories \cap post_data.categories # {}
    THEN "category"
  ELSE "other"

\* list.sort(key=len(title), reverse=True): stable, longest title first.
RECURSIVE SortByTitleLength(_, _)
SortByTitleLength(options, n) ==
  IF n < 0 THEN <<>>
  ELSE SelectSeq(options, LAMBDA o : Len(o.title) = n)
         \o SortByTitleLength(options, n - 1)

\* internal_linking.py 38-63: pilar_options + category_options +
\* other_options, each sorted by title length.
prioritized_link_options(a) ==
  LET tier(t) == SelectSeq(a.posts, LAMBDA o : Tier(o, a) = t)
  IN  SortByTitleLength(tier("pilar"), MaxEntries)
        \o SortByTitleLength(tier("category"), MaxEntries)
        \o SortByTitleLength(tier("other"), MaxEntries)

\* pattern.search(original_text): the position of the first whole-word
\* occurrence of the title in the text, 0 when there is none.
Search(title, text) ==
  LET hits == {i \in 1..(Len(text) - Len(title) + 1) :
                 SubSeq(text, i, i + Len(title) - 1) = title}
  IN  IF hits = {} THEN 0 ELSE CHOOSE i \in hits : \A j \in hits : i <= j

\* Mutant: the test 'url in used_urls' is missing.
FirstOption_IgnoreUsed(options, text, used_urls) ==
  LET ok == {k \in 1..Len(options) : Search(options[k].title, text) > 0}
  IN  IF ok = {} THEN 0 ELSE CHOOSE k \in ok : \A j \in ok : k <= j

\* internal_linking.py 76-89: the first entry of the priority list whose
\* link is not used yet and whose title occurs in the text; 0 when none.
FirstOption(options, text, used_urls) ==
  LET ok == {k \in 1..Len(options) :
               /\ options[k].link \notin used_urls
               /\ Search(options[k].title, text) > 0}
  IN  IF ok = {} THEN 0 ELSE CHOOSE k \in ok : \A j \in ok : k <= j

\* A region as the returned string has it: pieces of text (a = 0) and
\* anchors (a = the link).  Serialising writes no character reference.
Kept(node) ==
  [excl |-> node.excl, ref |-> FALSE,
   items |-> <<[a |-> 0, w |-> node.text]>>]

\* A region exactly as html_content has it.
Raw(node) ==
  [excl |-> node.excl, ref |-> node.ref,
   items |-> <<[a |-> 0, w |-> node.text]>>]

\* internal_linking.py 90-93: pattern.sub(link_tag_str, text, count=1).
Replaced(node, option) ==
  LET i == Search(option.title, node.text)
  IN  [excl |-> node.excl, ref |-> FALSE,
       items |-> << [a |-> 0, w |-> SubSeq(node.text, 1, i - 1)],
                    [a |-> option.link, w |-> option.title],
                    [a |-> 0, w |-> SubSeq(node.text, i + Len(option.title),
                                           Len(node.text))] >>]

\* Mutant: the test of the ancestors against EXCLUDED_TAGS is missing.
IsExcluded_Never(node) == FALSE

\* internal_linking.py 71: any(node.find_parent(tag) for tag in EXCLUDED_TAGS)
IsExcluded(node) == node.excl

RECURSIVE LinkNodes(_, _, _, _, _, _)

\* Mutant: the test of links_inserted against max_links is missing.
LinkNodes_NoMax(nodes, n, options, max_links, links_inserted, used_urls) ==
  IF n > Len(nodes) THEN <<>>
  ELSE IF IsExcluded(nodes[n])
    THEN <<Kept(nodes[n])>>
           \o LinkNodes(nodes, n + 1, options, max_links, links_inserted,
                        used_urls)
  ELSE LET k == FirstOption(options, nodes[n].text, used_urls)
       IN  IF k = 0
             THEN <<Kept(nodes[n])>>
                    \o LinkNodes(nodes, n + 1, options, max_links,
                                 links_inserted, used_urls)
             ELSE <<Replaced(nodes[n], options[k])>>
                    \o LinkNodes(nodes, n + 1, options, max_links,
                                 links_inserted + 1,
                                 used_urls \cup {options[k].link})

\* internal_linking.py 67-104: the loop over the text nodes, from node n on,
\* with links_inserted and used_urls as they stand.
LinkNodes(nodes, n, options, max_links, links_inserted, used_urls) ==
  IF n > Len(nodes) THEN <<>>
  ELSE IF links_inserted >= max_links
    THEN \* 68-69: break; the remaining nodes stay as they are
         [k \in 1..(Len(nodes) - n + 1) |-> Kept(nodes[n + k - 1])]
  ELSE IF IsExcluded(nodes[n])
    THEN \* 71-72: continue
         <<Kept(nodes[n])>>
           \o LinkNodes(nodes, n + 1, options, max_links, links_inserted,
                        used_urls)
  ELSE LET k == FirstOption(options, nodes[n].text, used_urls)
       IN  IF k = 0
             THEN <<Kept(nodes[n])>>
                    \o LinkNodes(nodes, n + 1, options, max_links,
                                 links_inserted, used_urls)
             ELSE \* 89-104: one anchor, then on to the next text node
                  <<Replaced(nodes[n], options[k])>>
                    \o LinkNodes(nodes, n + 1, options, max_links,
                                 links_inserted + 1,
                                 used_urls \cup {options[k].link})

\* add_internal_links(html_content, link_map_data, current_post_categories,
\* max_links): "unchanged" is the early return of html_content itself,
\* "raised" the AttributeError of soup.body.find_all when the document has
\* no body element, "returned" is str(soup).
add_internal_links(a) ==
  IF a.html_content.regions = <<>> \/ a.posts = <<>>
    THEN [kind |-> "unchanged",
          regions |-> [k \in 1..Len(a.html_content.regions) |->
                         Raw(a.html_content.regions[k])]]
  ELSE IF ~a.html_content.has_body
    THEN [kind |-> "raised", regions |-> <<>>]
  ELSE [kind |-> "returned",
        regions |-> LinkNodes(a.html_content.regions, 1,
                              prioritized_link_options(a), a.max_links,
                              0, {})]

InitLinks ==
  /\ InitLoop
  /\ ~refresh_due
  /\ arg \in LinkArgs
  /\ ret = <<>>

\* One call of add_internal_links on the arguments chosen.
CallLinks ==
  /\ pc = "top"
  /\ pc' = "add_internal_links"
  /\ ret' = add_internal_links(arg)
  /\ UNCHANGED <<queueVars, article, success, workerVars, storeVars, aiVars,
                 loopVars, exitVars, dataVars, histVars, arg>>

NextLinks == CallLinks

SpecLinks == InitLinks /\ [][NextLinks]_vars

\* The priority list on its own: catalogs of 1 to MaxPosts entries with
\* titles of one or two words, links 1 and 2 (entries may share a link) and
\* categories {} or {1}; any set of pillar links; the post's categories
\* empty or {1}.
PriorityPosts ==
  UNION {[1..n -> [title : {<<1>>, <<1, 2>>}, link : {1, 2},
                   categories : {{}, {1}}]] : n \in 1..MaxPosts}

PriorityArgs ==
  [posts : PriorityPosts, PILAR_POSTS : SUBSET {1, 2},
   current_post_categories : {{}, {1}}]

InitPriority ==
  /\ InitLoop
  /\ arg \in PriorityArgs
  /\ ret = <<>>

\* internal_linking.py 36-63 of one call: the priority list is built.
CallPriority ==
  /\ pc = "top"
  /\ pc' = "prioritized_link_options"
  /\ ret' = prioritized_link_options(arg)
  /\ UNCHANGED <<queueVars, article, success, workerVars, storeVars, aiVars,
                 loopVars, exitVars, dataVars, histVars, arg>>

NextPriority == CallPriority

SpecPriority == InitPriority /\ [][NextPriority]_vars

\* The anchors of a returned body: <<region, link, title>>.
Anchors(regions) ==
  {<<k, regions[k].items[i].a, regions[k].items[i].w>> :
     <<k, i>> \in {x \in (1..Len(regions)) \X (1..3) :
                     /\ x[2] <= Len(regions[x[1]].items)
                     /\ regions[x[1]].items[x[2]].a # 0}}

\* ---------------------------------------------- is_valid_upload_candidate
\* The names bound at module level in worker.py (its imports, lines 2-27).
WorkerImports ==
  {"logging", "time", "random", "json", "urlparse", "BeautifulSoup",
   "AIProcessor", "Quota429Error", "JsonFormatError", "AIProcessorError",
   "WordPressClient", "Database", "ContentExtractor", "add_internal_links",
   "clean_html_for_globo_esporte"}

TrackingHosts == {"sb.scorecardresearch.com", "securepubads.g.doubleclick.net"}
ImageSuffixes == {".jpg", ".jpeg", ".png", ".webp", ".gif"}

\* A URL by what the filter looks at: empty or not, the scheme, the
\* network location and the end of the path as urlparse gives them, whether
\* "author" or "avatar" occurs in it, and the values of its w/width/h/height
\* query parameters in order.
Urls ==
  [empty : BOOLEAN,
   scheme : {"https", "ftp"},
   netloc : {"img.example.com"} \cup TrackingHosts,
   suffix : {".jpg", ".webp", ".html"},
   marker : {"none", "author", "avatar"},
   dims : UNION {[1..n -> {50, 100, 101, 500}] : n \in 0..MaxDims}]

\* worker.py 50: any(int(d) <= 100 for d in dims)
DimsTooSmall(dims) == \E i \in 1..Len(dims) : dims[i] <= 100

\* worker.py 39-53.  Line 49 evaluates the global name 're': when the
\* module binds no such name the NameError is caught by 'except Exception'
\* at 52 and the result is False.
is_valid_upload_candidate(url) ==
  IF url.empty THEN FALSE
  ELSE IF url.scheme \notin {"http", "https"} THEN FALSE
  ELSE IF url.netloc \in TrackingHosts THEN FALSE
  ELSE IF url.suffix \notin ImageSuffixes THEN FALSE
  ELSE IF url.marker \in {"author", "avatar"} THEN FALSE
  ELSE IF "re" \notin WorkerImports THEN FALSE
  ELSE IF DimsTooSmall(url.dims) THEN FALSE
  ELSE TRUE

InitUpload ==
  /\ InitLoop
  /\ arg \in Urls
  /\ ret = <<>>

\* One call of is_valid_upload_candidate on the URL chosen.
CallUpload ==
  /\ pc = "top"
  /\ pc' = "is_valid_upload_candidate"
  /\ ret' = is_valid_upload_candidate(arg)
  /\ UNCHANGED <<queueVars, article, success, workerVars, storeVars, aiVars,
                 loopVars, exitVars, dataVars, histVars, arg>>

NextUpload == CallUpload

SpecUpload == InitUpload /\ [][NextUpload]_vars

\* -------------------------------------------------------- _parse_response
required_keys == {"titulo_final", "conteudo_final", "meta_description",
                  "focus_keyword", "tags", "yoast_meta"}
required_yoast_keys == {"_yoast_wpseo_title", "_yoast_wpseo_metadesc",
                        "_yoast_wpseo_focuskw", "_yoast_news_keywords"}

\* A response text by what the validation looks at: what json.loads makes
\* of it ("invalid": it raises JSONDecodeError), the top-level keys when it
\* is an object, what kind of value yoast_meta is, and that value's keys
\* when it is an object.
Responses ==
  {r \in [json : {"invalid", "array", "string", "object"},
          keys : SUBSET (required_keys \cup {"erro"}),
          yoast_meta : {"object", "string", "null"},
          yoast_keys : SUBSET required_yoast_keys] :
     /\ r.json # "object" => r.keys = {}
     /\ ("yoast_meta" \notin r.keys) => r.yoast_meta = "null"
     /\ r.yoast_meta # "object" => r.yoast_keys = {}}

\* Mutant: the check of the keys of yoast_meta is missing.
_parse_response_NoYoastKeys(r) ==
  IF r.json = "invalid" THEN "None"
  ELSE IF r.json # "object" THEN "None"
  ELSE IF "erro" \in r.keys THEN "rejection"
  ELSE IF required_keys \ r.keys # {} THEN "None"
  ELSE IF "yoast_meta" \in r.keys /\ r.yoast_meta = "object" THEN "data"
  ELSE "None"

\* ai_processor.py 229-285: "None", the object itself when it carries the
\* rejection field ("rejection"), or the validated object ("data").
_parse_response(r) ==
  IF r.json = "invalid" THEN "None"                  \* 278-281
  ELSE IF r.json # "object" THEN "None"              \* 243-245
  ELSE IF "erro" \in r.keys THEN "rejection"         \* 247-249
  ELSE IF required_keys \ r.keys # {} THEN "None"    \* 255-260
  ELSE IF "yoast_meta" \in r.keys /\ r.yoast_meta = "object"
    THEN IF required_yoast_keys \ r.yoast_keys # {}
           THEN "None"                               \* 267-270
           ELSE "data"                               \* 275-276
  ELSE "None"                                        \* 271-273

InitParse ==
  /\ InitLoop
  /\ arg \in Responses
  /\ ret = <<>>

\* One call of _parse_response on the response chosen.
CallParse ==
  /\ pc = "top"
  /\ pc' = "_parse_response"
  /\ ret' = _parse_response(arg)
  /\ UNCHANGED <<queueVars, article, success, workerVars, storeVars, aiVars,
                 loopVars, exitVars, dataVars, histVars, arg>>

NextParse == CallParse

SpecParse == InitParse /\ [][NextParse]_vars

\* ================================================================= claims

\* C1: whenever process_one_article has returned for a job (no interrupt),
\* exactly one terminal status was persisted during the call: PUBLISHED with
\* the post identifier recorded and the value True returned, or FAILED with
\* a reason and the value False returned; never both, never neither.
C1_OneTerminalStatus ==
  (success # "none" /\ article # NoJob) =>
    \/ /\ success = "True"
       /\ persisted = <<"PUBLISHED">>
       /\ status[article] = "PUBLISHED"
       /\ wp_post[article]
    \/ /\ success = "False"
       /\ persisted = <<"FAILED">>
       /\ status[article] = "FAILED"
       /\ reason[article] # "none"

\* C1 witness: a call that returned False after create_post had succeeded
\* and save_processed_post had raised: only FAILED was persisted.
C1_Witness ==
  /\ pc = "sleep" /\ success = "False" /\ wp_post_id
  /\ persisted = <<"FAILED">>

\* C2 (as claimed): under normal operation and a loop that keeps running,
\* every job marked PROCESSING eventually reaches PUBLISHED or FAILED.
C2_EveryJobTerminates ==
  \A j \in JobIds : (status[j] = "PROCESSING") ~> (status[j] \in Terminal)

\* C3 (as claimed): no error raised while a job is processed makes run_247
\* leave its loop; the loop ends only on the interrupt signal.
C3_QueueNeverHalts ==
  pc = "terminated" => exit_cause = "interrupt"

\* C4 (as claimed): once the persisted status of a job identifier is
\* PUBLISHED or FAILED, no step of the loop changes it.
C4_TerminalIsFinal ==
  [][\A j \in JobIds : status[j] \in Terminal => status'[j] = status[j]]_vars

\* C5: the queue is FIFO: what was enqueued is, in enqueue order, what was
\* returned followed by what is pending (every entry exactly once,
\* duplicates kept); is_empty is true exactly when nothing is pending; pop
\* returns the oldest pending entry, and on an empty queue returns the empty
\* value and leaves the queue as it was.
C5_QueueInv ==
  /\ pushed = popped \o queue
  /\ is_empty(queue) <=> (Len(popped) = Len(pushed))

C5_Fifo ==
  /\ []C5_QueueInv
  /\ [][pc' = "q_pop" =>
          IF Len(popped) = Len(pushed)
            THEN article' = NoJob /\ queue' = queue /\ popped' = popped
            ELSE /\ article' = pushed[Len(popped) + 1]
                 /\ popped' = Append(popped, article')]_vars

\* C5 witness: three entries from at least two batches, the first two equal,
\* were returned in order, and a further pop found the queue empty.
C5_Witness ==
  /\ pc = "q_pop" /\ article = NoJob
  /\ Len(popped) >= 3 /\ popped[1] = popped[2] /\ popped[2] # popped[3]

\* C6: at most one job identifier is PROCESSING at any time, it is the job
\* process_one_article is working on, and the driving loop is never at its
\* dequeue (or anywhere outside the call) while a job is PROCESSING.
C6_OneJobInFlight ==
  /\ Cardinality({j \in JobIds : status[j] = "PROCESSING"}) <= 1
  /\ \A j \in JobIds :
       status[j] = "PROCESSING" =>
         j = article /\ pc \in WorkerPcs \cup {"terminated"}

\* C6 witness: a job is in flight in the middle of its rewrite call while
\* the entry of another, still pending job waits in the queue.
C6_Witness ==
  /\ pc = "rw_try" /\ status[article] = "PROCESSING" /\ Len(queue) >= 1
  /\ queue[1] # article /\ status[queue[1]] = "PENDING"

\* C7: per job the strict-JSON flag starts false, becomes true at the first
\* JsonFormatError and stays true until the next job; every rewrite call is
\* made with force_json equal to the flag; the first JsonFormatError leads
\* to another rewrite call, the second one to the FAILED write (reason
\* "Invalid JSON from AI", return False) and to no further rewrite call, so
\* a job sees at most two format failures, quota backoffs in between or not.
\* (Where the store raises on that write, or the interrupt signal arrives,
\* run_247 ends instead; no rewrite call follows then either.)
C7_StrictJsonOnce ==
  /\ [](pc = "mark" => ~json_retry_used)
  /\ []((json_retry_used <=> json_failures >= 1) /\ json_failures <= 2)
  /\ [](pc = "rw_try" => force_json = json_retry_used)
  /\ [][json_retry_used /\ ~json_retry_used' => pc = "pop"]_vars
  /\ [][pc = "h_json" /\ pc' # "terminated" =>
          IF ~json_retry_used
            THEN pc' = "rewrite" /\ json_retry_used' /\ status' = status
            ELSE /\ pc' = "sleep" /\ success' = "False"
                 /\ status'[article] = "FAILED"
                 /\ reason'[article] = "Invalid JSON from AI"]_vars

\* C7 witness: a job failed on its second format failure, with a quota
\* backoff between the strict retry and that second failure.
C7_Witness ==
  /\ pc = "sleep" /\ json_failures = 2 /\ quota_after_retry
  /\ status[article] = "FAILED"
  /\ reason[article] = "Invalid JSON from AI"

\* C8: while Quota429Error, or the first JsonFormatError of a job, is being
\* handled the job is PROCESSING and nothing was returned; the handler's
\* step leads to another rewrite call for the same job and changes no
\* status, returns nothing and raises nothing to run_247 (the only other
\* step possible there is the interrupt signal).
C8_RecoverableStaysInside ==
  /\ [](pc = "h_quota" \/ (pc = "h_json" /\ ~json_retry_used) =>
          status[article] = "PROCESSING" /\ success = "none")
  /\ [][pc = "h_quota" \/ (pc = "h_json" /\ ~json_retry_used) =>
          \/ /\ pc' = "rewrite" /\ article' = article /\ status' = status
             /\ success' = "none" /\ exit_cause' = "none"
          \/ exit_cause' = "interrupt"]_vars

\* C8 witness: a job on its way to another rewrite call after both a first
\* format failure and a quota backoff.
C8_Witness ==
  /\ pc = "rewrite" /\ json_retry_used /\ quota_after_retry
  /\ status[article] = "PROCESSING"

\* C9: in a run of consecutive quota failures the credentials used, counting
\* repeated attempts on one credential once, advance by one modulo the pool
\* size; any NumKeys consecutive ones are pairwise different.
C9_CredentialCycle ==
  /\ \A i, j \in 1..Len(visited) : i # j => visited[i] # visited[j]
  /\ \A i \in 1..(Len(visited) - 1) :
       visited[i + 1] = (visited[i] + 1) % NumKeys

\* C9 witness: a run of quota failures that started on credential 1 went
\* through the whole pool, wrapping from the last credential to credential 0.
C9_Witness ==
  /\ Len(visited) = NumKeys /\ visited[1] = 1 /\ visited[NumKeys] = 0

\* C10 (as claimed): after an attempt failed with an unexpected error the
\* rewrite call makes no further attempt.
C10_NoFurtherAttempt ==
  ~(pc = "rw_try" /\ last_error = "other")

\* C10 (amended): after an attempt on credential k failed with an error that
\* is neither quota nor permission/not-found (an unexpected error, or a
\* response that does not validate), the fallback model of k is not tried;
\* the next attempt is on the primary model of credential k+1, and only when
\* k was the last credential does the call fail.
C10_NextCredentialAfterOther ==
  [][pc = "rw_try" /\ last_error' \in {"other", "invalid"}
       /\ <<key_index, model_i>>' # <<key_index, model_i>> =>
        /\ key_index' = key_index + 1
        /\ model_i' = 1
        /\ IF key_index + 1 < NumKeys THEN pc' = "rw_try"
                                      ELSE pc' \in {"h_exc", "h_json"}]_vars

\* C10 witness: the primary model of the next credential is about to be
\* tried right after the unexpected error of the previous credential.
C10_Witness ==
  /\ pc = "rw_try" /\ last_error = "other"
  /\ key_index = current_key_index + 1 /\ model_i = 1

\* C11: when an attempt of rewrite_content succeeds on credential index i,
\* the call returns the fields parsed from the response of that very attempt
\* and leaves the process-wide credential index at (i + 1) mod NumKeys.
C11_AdvanceOnSuccess ==
  /\ [][pc = "rw_try" /\ pc' = "pipeline" =>
          /\ current_key_index' = (key_index + 1) % NumKeys
          /\ rewritten_data' = <<key_index, model_i>>]_vars
  /\ [](pc = "pipeline" =>
          /\ rewritten_data = <<key_index, model_i>>
          /\ current_key_index = (rewritten_data[1] + 1) % NumKeys)

\* C11 witness: the rewrite succeeded with the fallback model of the last
\* credential, reached after the call had started on an earlier one, and the
\* credential index wrapped to 0.
C11_Witness ==
  /\ pc = "pipeline" /\ rewritten_data = <<NumKeys - 1, 2>>
  /\ current_key_index = 0 /\ last_error = "quota"

\* A call of add_internal_links has been made on a document with a body
\* element and a catalog of MaxEntries entries with distinct links.
LinksCalled ==
  /\ pc = "add_internal_links"
  /\ arg.html_content.has_body
  /\ arg.posts # <<>>
  /\ \A i \in 1..Len(arg.posts) : arg.posts[i].link = i

\* The title occurs in the text of a region that is open to linking.
Mentioned(title) ==
  \E k \in 1..Len(arg.html_content.regions) :
    /\ ~arg.html_content.regions[k].excl
    /\ Search(title, arg.html_content.regions[k].text) > 0

\* C12 (as claimed): with entry A ("Team X") in the pillar tier, entry B
\* ("Team X Rivalry") in the same-category tier and a body that mentions
\* "Team X Rivalry", the anchor goes on "Team X Rivalry" with B's link, and
\* no anchor is made of the shorter title.
C12_LongerTitleLinked ==
  ( /\ LinksCalled
    /\ Tier(arg.posts[1], arg) = "pilar"
    /\ Tier(arg.posts[2], arg) = "category"
    /\ Mentioned(Title(2)) ) =>
      /\ ret.kind = "returned"
      /\ \E x \in Anchors(ret.regions) : x[2] = 2 /\ x[3] = Title(2)
      /\ \A x \in Anchors(ret.regions) : x[3] # Title(1)

\* C13 (as claimed): with max_links = 2 and five entries whose titles all
\* occur in the text regions of the body (none of them excluded), exactly
\* two anchors are inserted, however the titles are spread over the regions.
C13_ExactlyMaxLinks ==
  ( /\ LinksCalled
    /\ arg.max_links = 2
    /\ Len(arg.posts) = 5
    /\ \A i \in 1..Len(arg.posts) : Mentioned(arg.posts[i].title) ) =>
      /\ ret.kind = "returned"
      /\ Cardinality(Anchors(ret.regions)) = 2

\* C14 (as claimed): whatever the body and the catalog, a region under an
\* excluded element comes back exactly as it was written, and no region
\* holds an anchor made inside the text of another anchor.
C14_ExcludedUntouched ==
  (pc = "add_internal_links" /\ ret.kind # "raised") =>
    /\ Len(ret.regions) = Len(arg.html_content.regions)
    /\ \A k \in 1..Len(ret.regions) :
         arg.html_content.regions[k].excl =>
           ret.regions[k] = Raw(arg.html_content.regions[k])

\* C14 (amended): whatever the body and the catalog, a region under an
\* excluded element gets no anchor and keeps its text (the body that is
\* returned is serialised anew, so a character reference in it is written
\* back decoded); every other region gets at most one anchor, whose text is
\* the title and is not linked again.
C14_ExcludedKeptAsParsed ==
  (pc = "add_internal_links" /\ ret.kind # "raised") =>
    /\ Len(ret.regions) = Len(arg.html_content.regions)
    /\ \A k \in 1..Len(ret.regions) :
         LET old == arg.html_content.regions[k]
             new == ret.regions[k]
         IN  /\ old.excl => new.items = <<[a |-> 0, w |-> old.text]>>
             /\ Cardinality({x \in Anchors(ret.regions) : x[1] = k}) <= 1
             /\ ret.kind = "unchanged" => new = Raw(old)

\* C14 witness: a body was returned with an anchor in its second region
\* while its first region, under an excluded element, written with a
\* character reference and mentioning "Team X Rivalry", got none.
C14_Witness ==
  /\ LinksCalled /\ ret.kind = "returned"
  /\ arg.html_content.regions[1].excl /\ arg.html_content.regions[1].ref
  /\ Search(Title(2), arg.html_content.regions[1].text) > 0
  /\ \E x \in Anchors(ret.regions) : x[1] = 2

\* A URL that passes every test before the size test.
Qualifying(url) ==
  /\ ~url.empty /\ url.scheme = "https" /\ url.netloc \notin TrackingHosts
  /\ url.suffix \in ImageSuffixes /\ url.marker = "none"

\* C15 (as claimed): is_valid_upload_candidate rejects an otherwise
\* qualifying image URL with a size parameter of 100 or less, accepts it
\* when its size parameters are all above 100, and rejects every URL on a
\* tracking host whatever its size parameters.
C15_SizeFilter ==
  pc = "is_valid_upload_candidate" =>
    /\ (Qualifying(arg) /\ \E i \in 1..Len(arg.dims) : arg.dims[i] <= 100)
         => ret = FALSE
    /\ (Qualifying(arg) /\ arg.dims # <<>>
          /\ \A i \in 1..Len(arg.dims) : arg.dims[i] > 100)
         => ret = TRUE
    /\ arg.netloc \in TrackingHosts => ret = FALSE

\* C16: _parse_response returns nothing for a response that is not an
\* object; for an object without the rejection field it returns the object
\* exactly when the six required keys are present and yoast_meta is an
\* object holding the four required sub-keys.
C16_ResponseValidation ==
  pc = "_parse_response" =>
    /\ arg.json # "object" => ret = "None"
    /\ (arg.json = "object" /\ "erro" \notin arg.keys) =>
         /\ ret \in {"data", "None"}
         /\ ret = "data" <=>
              /\ required_keys \subseteq arg.keys
              /\ arg.yoast_meta = "object"
              /\ required_yoast_keys \subseteq arg.yoast_keys

\* C16 witness: an object with every required top-level key, whose
\* yoast_meta object lacks exactly one sub-key, was rejected.
C16_Witness ==
  /\ pc = "_parse_response" /\ ret = "None"
  /\ arg.json = "object" /\ arg.keys = required_keys
  /\ arg.yoast_meta = "object"
  /\ Cardinality(required_yoast_keys \ arg.yoast_keys) = 1

\* C17: when the link catalog is absent or does not parse, the step that
\* loads it changes no status and leaves the body as it was, and the job
\* goes on to the featured image and the publication; as long as the job is
\* on that path it is PROCESSING with the body it had.
C17_CatalogFailureNonFatal ==
  /\ [][pc = "links" /\ link_map' \in {"absent", "malformed"} =>
          /\ pc' = "publish"
          /\ content_html' = content_html
          /\ status' = status /\ reason' = reason
          /\ success' = "none"]_vars
  /\ [](pc \in {"publish", "save"} /\ link_map \in {"absent", "malformed"} =>
          status[article] = "PROCESSING" /\ content_html = "rewritten")

\* C17 witness: with the catalog absent, the post has been created and is
\* about to be recorded as published.
C17_Witness ==
  /\ pc = "save" /\ link_map = "absent" /\ wp_post_id
  /\ content_html = "rewritten" /\ status[article] = "PROCESSING"

\* C18 (as claimed): whenever the refresh interval has elapsed, the loop
\* performs a feed refresh later on, whether the queue is empty or not.
C18_RefreshWhenDue ==
  refresh_due ~> ~refresh_due

\* C19: the interrupt signal changes no persisted status and ends run_247;
\* the job that was being processed (already marked) stays PROCESSING.
C19_InterruptLeavesProcessing ==
  /\ [][pc # "terminated" /\ exit_cause' = "interrupt" =>
          /\ pc' = "terminated"
          /\ status' = status /\ reason' = reason /\ wp_post' = wp_post
          /\ (pc \in WorkerPcs \ {"mark"} =>
                status'[article] = "PROCESSING")]_vars
  /\ [][pc = "terminated" => status' = status]_vars

\* C19 witness: the interrupt arrived after the post had been created and
\* before it was recorded: the job is left PROCESSING.
C19_Witness ==
  /\ pc = "terminated" /\ exit_cause = "interrupt" /\ wp_post_id
  /\ article # NoJob /\ status[article] = "PROCESSING"

\* C20: run_247 has left its loop exactly when the store connection has
\* been closed, and it is closed once, whether the loop ended on the
\* interrupt signal or on an exception that escaped.
C20_ClosedExactlyOnce ==
  /\ db_closed \in {0, 1}
  /\ (pc = "terminated") <=> (db_closed = 1)
  /\ (pc = "terminated") <=> (exit_cause \in {"interrupt", "error"})

\* C20 witness: the loop ended on an exception raised by the store while a
\* failure was being recorded, and the connection was closed.
C20_Witness ==
  /\ pc = "terminated" /\ exit_cause = "error" /\ db_closed = 1
  /\ article # NoJob /\ status[article] = "PROCESSING"
  /\ rewritten_data # <<>>

\* C21: an entry leaves the queue when it is dequeued and is never put
\* back: the queue only loses its head to the dequeue and only grows by what
\* a feed fetch appends, process_one_article is entered only with the entry
\* just dequeued, and so every enqueued entry is handed over at most once.
C21_NoRequeue ==
  /\ [](pushed = popped \o queue)
  /\ [][queue' # queue =>
          \/ /\ pc = "pop" /\ pc' = "mark"
             /\ article' = Head(queue) /\ queue' = Tail(queue)
             /\ pushed' = pushed
          \/ /\ pc \in {"top", "idle"}
             /\ Len(queue') > Len(queue)
             /\ SubSeq(queue', 1, Len(queue)) = queue
             /\ pushed' = pushed \o SubSeq(queue', Len(queue) + 1, Len(queue'))
             /\ popped' = popped]_vars
  /\ [][pc' = "mark" => pc = "pop" /\ popped' = Append(popped, article')]_vars

\* C21 witness: two jobs were dequeued, the first ended FAILED and the
\* second PUBLISHED, and the queue is empty.
C21_Witness ==
  /\ pc = "sleep" /\ queue = <<>> /\ Len(popped) = 2
  /\ popped[1] # popped[2]
  /\ status[popped[1]] = "FAILED" /\ status[popped[2]] = "PUBLISHED"

\* C22: a rewrite call starts with the primary model of the current
\* credential; the fallback model of a credential is attempted only right
\* after the primary model of that credential failed with a quota or
\* permission/not-found signal; the next credential is attempted, primary
\* model first, only after the fallback model of the current one failed or
\* an attempt on it failed with another error.
C22_ModelOrder ==
  /\ [][pc # "rw_try" /\ pc' = "rw_try" =>
          model_i' = 1 /\ key_index' = current_key_index]_vars
  /\ [][pc = "rw_try" /\ pc' = "rw_try" =>
          \/ /\ model_i = 1 /\ model_i' = 2
             /\ key_index' = key_index
             /\ last_error' \in {"quota", "perm"}
          \/ /\ model_i' = 1
             /\ key_index' = key_index + 1
             /\ model_i = 2 \/ last_error' \notin {"quota", "perm"}]_vars

\* C22 witness: the fallback model of the second credential is about to be
\* tried after its primary model met a permission/not-found signal.
C22_Witness ==
  /\ pc = "rw_try" /\ models_to_try[model_i] = "fallback"
  /\ last_error = "perm" /\ key_index = 1

\* C23 (as claimed): when the fallback model of a credential fails with a
\* quota signal after its primary model did, the rewrite call ends there
\* with QuotaExceeded, without moving on to another credential.
C23_QuotaHandsBack ==
  [][pc = "rw_try" /\ model_i = 2 /\ last_error = "quota"
       /\ last_error' = "quota" /\ key_index' # key_index =>
        pc' = "h_quota"]_vars

\* C23 (amended): when both models of a credential failed with a quota
\* signal, the rewrite call itself goes on to the primary model of the next
\* credential, and ends with QuotaExceeded only when that credential was the
\* last of the pool; the orchestration loop then backs off and retries, and
\* advances the credential at its third backoff.
C23_QuotaNextCredential ==
  /\ [][pc = "rw_try" /\ model_i = 2 /\ last_error = "quota"
          /\ last_error' = "quota" /\ key_index' # key_index =>
           /\ key_index' = key_index + 1 /\ model_i' = 1
           /\ current_key_index' = key_index
           /\ IF key_index + 1 < NumKeys THEN pc' = "rw_try"
                                         ELSE pc' = "h_quota"]_vars
  /\ [][pc = "h_quota" /\ pc' # "terminated" =>
           /\ pc' = "rewrite"
           /\ current_key_index' =
                IF backoff_attempt + 1 >= FailoverAfter
                  THEN (current_key_index + 1) % NumKeys
                  ELSE current_key_index]_vars

\* C23 witness: the primary model of the second credential is about to be
\* tried in the same call in which both models of the first one met a quota
\* signal.
C23_Witness ==
  /\ pc = "rw_try" /\ last_error = "quota" /\ model_i = 1
  /\ key_index = 1 /\ current_key_index = 0 /\ visited = <<0>>

\* C24: the current credential index cycles back to 0 after the pool is
\* exhausted: a rewrite call that ends because every credential from the
\* current one to the last one failed leaves the process-wide index at 0,
\* and so does a failover requested while the last credential is current.
C24_CyclesToZero ==
  /\ [][pc = "rw_try" /\ key_index' = NumKeys =>
          current_key_index' = 0]_vars
  /\ [][pc = "h_quota" /\ current_key_index = NumKeys - 1
          /\ backoff_attempt' = 0 /\ pc' = "rewrite" =>
          current_key_index' = 0]_vars

\* C25: the quota backoff counter of a job never survives a credential
\* switch.  While the job is still asking for a rewrite, every step that
\* changes the current credential leaves the counter at 0, so the next
\* backoff is attempt 1; the one switch that keeps a nonzero counter is the
\* advance after a successful rewrite, after which the job asks for no
\* further rewrite; and every job starts with the counter at 0.
RewritePhase == {"rewrite", "rw_try", "h_quota", "h_json"}

C25_BackoffResetOnSwitch ==
  /\ [][(pc \in RewritePhase /\ pc' \in RewritePhase
            /\ current_key_index' # current_key_index)
          => backoff_attempt' = 0]_vars
  /\ [][(pc \in WorkerPcs \ (RewritePhase \cup {"mark"}))
          => pc' \notin RewritePhase]_vars
  /\ [][pc' = "mark" => backoff_attempt' = 0]_vars
  /\ [][(pc = "h_quota" /\ pc' = "rewrite"
            /\ current_key_index' = current_key_index)
          => backoff_attempt' = backoff_attempt + 1]_vars

C25_Witness ==
  /\ pc = "rw_try" /\ backoff_attempt = 0 /\ key_index = NumKeys - 1
  /\ visited = <<NumKeys - 1, 0, 1>> /\ current_key_index = 1

\* C26: a response that carries the rejection field ends the rewrite call at
\* once as a soft decline: the step that returns it tries no further model
\* or credential, the process-wide index stays on the credential that
\* answered (no failover advance), and the job is not retried: it is marked
\* FAILED, or the process ends, with the index untouched.
Declined == pc = "h_exc" /\ rewritten_data = <<>> /\ key_index < NumKeys

C26_SoftDecline ==
  /\ [][(pc = "rw_try" /\ pc' = "h_exc" /\ key_index' = key_index)
          => /\ model_i' = model_i /\ last_error' = last_error
             /\ current_key_index' = key_index]_vars
  /\ [](Declined => current_key_index = key_index)
  /\ [][Declined
          => /\ pc' \in {"sleep", "terminated"}
             /\ current_key_index' = current_key_index
             /\ pc' = "sleep" => status'[article] = "FAILED"]_vars

C26_Witness ==
  /\ Declined /\ key_index = 1 /\ model_i = 2
  /\ current_key_index = 1 /\ last_error = "quota"

\* The anchors of a returned body by position: <<region, item>>.
AnchorItems(regions) ==
  {x \in (1..Len(regions)) \X (1..3) :
     /\ x[2] <= Len(regions[x[1]].items)
     /\ regions[x[1]].items[x[2]].a # 0}

\* C27: whatever the body, the catalog and max_links >= 0, a call inserts at
\* most max_links anchors in all and at most one per text region, the rest
\* of a linked region stays plain text, and a region that comes after the
\* max_links-th insertion is returned as it was parsed.
C27_AtMostMaxLinks ==
  pc = "add_internal_links" =>
    /\ Cardinality(AnchorItems(ret.regions)) <= arg.max_links
    /\ \A k \in 1..Len(ret.regions) :
         /\ Cardinality({x \in AnchorItems(ret.regions) : x[1] = k}) <= 1
         /\ Cardinality({x \in AnchorItems(ret.regions) : x[1] < k})
              >= arg.max_links
              => ret.regions[k].items
                   = <<[a |-> 0, w |-> arg.html_content.regions[k].text]>>

\* C27 witness: with max_links = 2 the first two regions got an anchor each
\* and the third, open to linking and mentioning a title whose link is not
\* used, got none.
C27_Witness ==
  /\ LinksCalled /\ ret.kind = "returned" /\ arg.max_links = 2
  /\ Len(ret.regions) = 3
  /\ {x[1] : x \in AnchorItems(ret.regions)} = {1, 2}
  /\ ~arg.html_content.regions[3].excl
  /\ \E i \in 1..Len(arg.posts) :
       /\ Search(arg.posts[i].title, arg.html_content.regions[3].text) > 0
       /\ \A x \in Anchors(ret.regions) : x[2] # arg.posts[i].link

\* C28: within one call a target URL is linked at most once: no two anchors
\* of the returned body carry the same link, whether the entry's title
\* occurs again in a later region or another entry has the same link.
C28_UrlLinkedOnce ==
  pc = "add_internal_links" =>
    \A x, y \in AnchorItems(ret.regions) :
      ret.regions[x[1]].items[x[2]].a = ret.regions[y[1]].items[y[2]].a
        => x = y

\* C28 witness: the last two entries share a link; it was used in one
\* region, and a later region, open to linking and mentioning the titles of
\* both, got no anchor although max_links was not reached.
C28_Witness ==
  /\ pc = "add_internal_links" /\ ret.kind = "returned"
  /\ arg.posts # <<>>
  /\ arg.posts[MaxEntries].link = arg.posts[MaxEntries - 1].link
  /\ Cardinality(AnchorItems(ret.regions)) < arg.max_links
  /\ \E x \in Anchors(ret.regions) :
       /\ x[2] = arg.posts[MaxEntries].link
       /\ \E j \in (x[1] + 1)..Len(ret.regions) :
            /\ ~arg.html_content.regions[j].excl
            /\ Search(Title(MaxEntries), arg.html_content.regions[j].text) > 0
            /\ Search(Title(MaxEntries - 1),
                      arg.html_content.regions[j].text) > 0
            /\ \A y \in Anchors(ret.regions) : y[1] # j

\* The tier number the documentation gives an entry: 1 pillar, 2 same
\* category (the post's categories and the entry's have one in common, so
\* never with an empty set of current categories), 3 other.
TierRank(e) ==
  IF e.link \in arg.PILAR_POSTS THEN 1
  ELSE IF arg.current_post_categories \cap e.categories # {} THEN 2
  ELSE 3

\* C29: the priority list holds every catalog entry exactly once, pillar
\* entries first, then same-category entries, then the others, and longer
\* titles before shorter ones inside a tier; an entry that is pillar and
\* same-category counts as pillar, and with no current category no entry
\* counts as same-category.
C29_PriorityList ==
  pc = "prioritized_link_options" =>
    /\ Len(ret) = Len(arg.posts)
    /\ \A e \in {arg.posts[i] : i \in 1..Len(arg.posts)} :
         Cardinality({i \in 1..Len(ret) : ret[i] = e})
           = Cardinality({i \in 1..Len(arg.posts) : arg.posts[i] = e})
    /\ \A i, j \in 1..Len(ret) :
         i < j =>
           /\ TierRank(ret[i]) <= TierRank(ret[j])
           /\ TierRank(ret[i]) = TierRank(ret[j])
                => Len(ret[i].title) >= Len(ret[j].title)

\* C29 witness: three entries, one of each tier, given in the order other,
\* same-category, pillar, the pillar one also of the post's category; the
\* list has them in the opposite order.
C29_Witness ==
  /\ pc = "prioritized_link_options"
  /\ Len(arg.posts) = 3
  /\ TierRank(arg.posts[1]) = 3 /\ TierRank(arg.posts[2]) = 2
  /\ TierRank(arg.posts[3]) = 1 /\ arg.posts[3].categories = {1}
  /\ arg.current_post_categories = {1}
  /\ ret = <<arg.posts[3], arg.posts[2], arg.posts[1]>>

\* C30: between the operations of the processor (rewrite calls that
\* succeed, decline or fail, and failover requests) the process-wide
\* current credential index is an index of the pool, 0..NumKeys-1: it is
\* never left at NumKeys or beyond.
C30_IndexInRange == current_key_index \in 0..(NumKeys - 1)

\* C30 witness: a rewrite call ran through the pool to its last credential
\* on quota failures, and the failover requested at the third backoff, with
\* the last credential current, put the index back to 0.
C30_Witness ==
  /\ pc = "rewrite" /\ status[article] = "PROCESSING"
  /\ backoff_attempt = 0 /\ current_key_index = 0
  /\ last_error = "quota" /\ key_index = NumKeys
  /\ visited # <<>> /\ visited[Len(visited)] = NumKeys - 1

\* A step of the quota handler that goes on with the job (the interrupt
\* signal is the only other step possible there).
BackoffStep == pc = "h_quota" /\ pc' = "rewrite"

\* The handler requested a credential failover.
FailoverRequested == current_key_index' # current_key_index

\* C31 (as claimed): the loop requests a failover after exactly three
\* quota failures in a row on the same credential and not before; the
\* attempt of a backoff is in 1..3; the wait is
\* min(base * 2^(attempt-1), cap), never above the cap, and from one
\* backoff of the job to the next, both met on the same credential, it does
\* not decrease.
C31_ThreeInARow ==
  /\ [][BackoffStep =>
          /\ FailoverRequested <=> quota_run' = FailoverAfter
          /\ backoff_attempt + 1 \in 1..FailoverAfter
          /\ last_wait' <= BACKOFF_MAX
          /\ \E w \in {BACKOFF_BASE * (2 ^ backoff_attempt), BACKOFF_MAX} :
               /\ last_wait' = w
               /\ w <= BACKOFF_BASE * (2 ^ backoff_attempt)
               /\ w <= BACKOFF_MAX
          /\ last_wait > 0 => last_wait' >= last_wait]_vars
  /\ [](pc = "h_quota" => current_key_index = NumKeys - 1)

\* C31 (amended): the loop requests a failover at the third quota failure it
\* handles for the job since the job started or since its last failover
\* request, and not before; a format failure handled in between does not
\* restart the count.  The attempt of a backoff is in 1..3, the wait is
\* min(base * 2^(attempt-1), cap), never above the cap, and it does not
\* decrease from one backoff to the next unless a failover was requested
\* between them.  Every quota failure reaches the loop with the last
\* credential of the pool current.
C31_ThirdBackoff ==
  /\ [][BackoffStep =>
          /\ FailoverRequested <=> backoff_attempt + 1 = FailoverAfter
          /\ FailoverRequested =>
               /\ backoff_attempt' = 0
               /\ current_key_index' = (current_key_index + 1) % NumKeys
          /\ ~FailoverRequested => backoff_attempt' = backoff_attempt + 1
          /\ backoff_attempt + 1 \in 1..FailoverAfter
          /\ last_wait' <= BACKOFF_MAX
          /\ \E w \in {BACKOFF_BASE * (2 ^ backoff_attempt), BACKOFF_MAX} :
               /\ last_wait' = w
               /\ w <= BACKOFF_BASE * (2 ^ backoff_attempt)
               /\ w <= BACKOFF_MAX
          /\ backoff_attempt > 0 => last_wait' >= last_wait
          /\ quota_run' <= backoff_attempt + 1
          /\ ~json_retry_used => quota_run' = backoff_attempt + 1]_vars
  /\ [](pc = "h_quota" => current_key_index = NumKeys - 1)
  /\ [][(pc \in WorkerPcs \ {"h_quota"} /\ pc' \in WorkerPcs)
          => backoff_attempt' = backoff_attempt /\ last_wait' = last_wait]_vars

\* C31 witness: a failover was requested at the job's third backoff, slept
\* for the capped wait, although a strict-format retry had come between its
\* quota failures: only two of them were in a row.
C31_Witness ==
  /\ pc = "rewrite" /\ status[article] = "PROCESSING"
  /\ backoff_attempt = 0 /\ current_key_index = 0
  /\ last_wait = BACKOFF_MAX /\ BACKOFF_MAX < BACKOFF_BASE * 4
  /\ json_retry_used /\ quota_run = 2

\* C32: publication and persisted status agree.  When process_one_article
\* has returned, the job is PUBLISHED exactly when create_post returned a
\* post identifier for it; a job for which create_post returned a post
\* identifier is never FAILED, and a job is never PUBLISHED without one.
C32_PublishedIffPosted ==
  article # NoJob =>
    /\ pc = "sleep" => (status[article] = "PUBLISHED" <=> wp_post_id)
    /\ ~(wp_post_id /\ status[article] = "FAILED")

====
